---- MODULE Spec2Model ----
(***************************************************************************)
(* Distance-vector router simulation (src/router.py, src/main.py).         *)
(*                                                                         *)
(* A Python dict is modelled as a sequence of <<key, value>> pairs in      *)
(* insertion order, so that iteration order and "changed size during       *)
(* iteration" are those of the code.                                       *)
(*   routing_table : destination -> <<cost, next_hop>>                     *)
(*   neighbors     : neighbor    -> <<port, link_cost>>                    *)
(* interfaces is only ever indexed (never iterated by the router), so it   *)
(* is a function port -> BOOLEAN whose DOMAIN is the set of keys.          *)
(***************************************************************************)
EXTENDS Integers, Sequences, FiniteSets, TLC

VARIABLES
    routers,        \* DVRouterCLI.routers: names of the constructed Router objects
    neighbors,      \* Router.neighbors, per router
    routing_table,  \* Router.routing_table, per router
    interfaces,     \* Router.interfaces, per router
    running,        \* Router.running, per router
    threads,        \* the run() threads spawned by Router.start, per router
    inbox,          \* datagrams queued on Router.socket, per router
    commands,       \* number of calls made so far from the command thread
    display,        \* the command thread inside Router.display_routing_table
    log             \* the last record handed to logger / perror

vars == <<routers, neighbors, routing_table, interfaces, running, threads, inbox,
          commands, display, log>>

-----------------------------------------------------------------------------
(* Bounds of the model *)

MaxThreads == 2
MaxQueue == 2
MaxCommands == 4
MaxCalls == 2
MaxLen == 2
MaxBacklog == 1

-----------------------------------------------------------------------------
(* Names, ports and the topologies of config.json *)

Names == {"A", "B", "C"}

PortOf == [n \in Names |-> CASE n = "A" -> 5010 [] n = "B" -> 5020 [] OTHER -> 5030]

Ports == {PortOf[n] : n \in Names}

\* Two routers and one link.
Pair ==
    [A |-> [port |-> 5010, neighbors |-> << <<"B", <<5020, 1>> >> >>],
     B |-> [port |-> 5020, neighbors |-> << <<"A", <<5010, 1>> >> >>]]

\* One router with two links of different cost (its peers are not simulated).
Solo ==
    [A |-> [port |-> 5010, neighbors |-> << <<"B", <<5020, 1>> >>, <<"C", <<5030, 2>> >> >>]]

\* The chain A - B - C with both links of cost 1.
Chain ==
    [A |-> [port |-> 5010, neighbors |-> << <<"B", <<5020, 1>> >> >>],
     B |-> [port |-> 5020, neighbors |-> << <<"A", <<5010, 1>> >>, <<"C", <<5030, 1>> >> >>],
     C |-> [port |-> 5030, neighbors |-> << <<"B", <<5020, 1>> >> >>]]

SysConfigs == {Pair}

\* The chain with a direct link A - C that costs more than the way through B.
Triangle ==
    [A |-> [port |-> 5010, neighbors |-> << <<"B", <<5020, 1>> >>, <<"C", <<5030, 3>> >> >>],
     B |-> [port |-> 5020, neighbors |-> << <<"A", <<5010, 1>> >>, <<"C", <<5030, 1>> >> >>],
     C |-> [port |-> 5030, neighbors |-> << <<"B", <<5020, 1>> >>, <<"A", <<5010, 3>> >> >>]]

ChainConfigs == {Chain}

\* The static connected topologies.
StaticConfigs == {Chain, Triangle}

CallConfigs == {Solo}

\* Link costs offered to add_neighbor.
AddCosts == {1, 3}

\* Costs advertised in the neighbor tables offered to update_routing_table.
NeighborCosts == {0, 1}

-----------------------------------------------------------------------------
(* Python dict operations on sequences of <<key, value>> pairs *)

Keys(d) == {d[i][1] : i \in DOMAIN d}

Has(d, k) == k \in Keys(d)

Index(d, k) == CHOOSE i \in DOMAIN d : d[i][1] = k

Get(d, k) == d[Index(d, k)][2]

\* d[k] = v: replaces the value in place, or appends a new key.
Put(d, k, v) ==
    IF Has(d, k) THEN [d EXCEPT ![Index(d, k)] = <<k, v>>] ELSE Append(d, <<k, v>>)

\* self.interfaces.get(port, False)
IfaceGet(ifs, port) == IF port \in DOMAIN ifs THEN ifs[port] ELSE FALSE

\* self.interfaces[port] = value
IfaceSet(ifs, port, value) ==
    [p \in (DOMAIN ifs) \cup {port} |-> IF p = port THEN value ELSE ifs[p]]

-----------------------------------------------------------------------------
(* Router.__init__ *)

InitTable(name) == << <<name, <<0, name>> >> >>

InitInterfaceState_Active == TRUE

InitInterfaceState == FALSE

InitInterfaces(nbrs) == [p \in {nbrs[i][2][1] : i \in DOMAIN nbrs} |-> InitInterfaceState]

InitRunning == FALSE

NoThread == [pc |-> "none", idx |-> 0, used |-> 0, nbr |-> <<>>]

\* The command thread is not displaying; previous holds every router's
\* previous_routing_table.
Idle(previous) ==
    [router |-> "", idx |-> 0, used |-> 0, rows |-> <<>>, first |-> <<>>,
     previous |-> previous]

NoLog == [op |-> "none", router |-> "", peer |-> "", arg |-> <<>>, updated |-> FALSE]

Log(op, router, peer, arg, updated) ==
    [op |-> op, router |-> router, peer |-> peer, arg |-> arg, updated |-> updated]

-----------------------------------------------------------------------------
(* Router.update_routing_table *)

NewCost_NoLink(link_cost, neighbor_cost) == neighbor_cost

NewCost(link_cost, neighbor_cost) == link_cost + neighbor_cost

Better_Greater(table, destination, new_cost) ==
    \/ ~Has(table, destination)
    \/ new_cost > Get(table, destination)[1]

Better_OrEqual(table, destination, new_cost) ==
    \/ ~Has(table, destination)
    \/ new_cost <= Get(table, destination)[1]

\* The guard of the assignment at line 178.
Better(table, destination, new_cost) ==
    \/ ~Has(table, destination)
    \/ new_cost < Get(table, destination)[1]

\* An item value that unpacks as (neighbor_cost, _).
WellFormed(value) == Len(value) = 2

\* The for loop over neighbor_table.items(), from entry i on. raised: the
\* unpacking of entry i failed; the assignments made for the entries before it
\* stand.
RECURSIVE MergeFrom(_, _, _, _, _)
MergeFrom(table, neighbor_table, i, link_cost, neighbor_name) ==
    IF i > Len(neighbor_table)
    THEN [table |-> table, updated |-> FALSE, raised |-> FALSE]
    ELSE IF ~WellFormed(neighbor_table[i][2])
    THEN [table |-> table, updated |-> FALSE, raised |-> TRUE]
    ELSE LET destination == neighbor_table[i][1]
             neighbor_cost == neighbor_table[i][2][1]
             new_cost == NewCost(link_cost, neighbor_cost)
             hit == Better(table, destination, new_cost)
             next == IF hit
                     THEN Put(table, destination, <<new_cost, neighbor_name>>)
                     ELSE table
             \* (the set binds the table merged so far to a value, once)
             rest == CHOOSE m \in {MergeFrom(t, neighbor_table, i + 1, link_cost,
                                             neighbor_name) : t \in {next}} : TRUE
         IN  [table |-> rest.table, updated |-> hit \/ rest.updated,
              raised |-> rest.raised]

update_routing_table_AnySender(table, nbrs, neighbor_name, neighbor_table) ==
    MergeFrom(table, neighbor_table, 1,
              IF Has(nbrs, neighbor_name) THEN Get(nbrs, neighbor_name)[2] ELSE 1,
              neighbor_name)

\* raised: self.neighbors[neighbor_name] raised KeyError before any assignment,
\* or the loop raised at a malformed entry.
update_routing_table(table, nbrs, neighbor_name, neighbor_table) ==
    IF ~Has(nbrs, neighbor_name)
    THEN [table |-> table, updated |-> FALSE, raised |-> TRUE]
    ELSE MergeFrom(table, neighbor_table, 1, Get(nbrs, neighbor_name)[2], neighbor_name)

-----------------------------------------------------------------------------
(* The wire message: json.dumps at send time, json.loads at receive time *)

\* A tuple value (cost, next_hop) is written as the JSON list [cost, next_hop].
Dumps(sender, table) ==
    [sender |-> sender,
     routing_table |-> [i \in DOMAIN table |-> <<table[i][1], <<table[i][2][1], table[i][2][2]>> >>]]

\* A datagram whose bytes are not a JSON message with sender and routing_table.
Garbage == [sender |-> "not json", routing_table |-> <<>>]

\* json.loads and the two subscripts of receive_routing_table.
Loads(data) ==
    IF data = Garbage
    THEN [raised |-> TRUE, sender |-> "", routing_table |-> <<>>]
    ELSE [raised |-> FALSE, sender |-> data.sender, routing_table |-> data.routing_table]

\* The try block of receive_routing_table on one datagram: decode, then merge.
\* raised: an exception reached the except clause.
Handled(table, nbrs, data) ==
    IF Loads(data).raised
    THEN [table |-> table, updated |-> FALSE, raised |-> TRUE]
    ELSE update_routing_table(table, nbrs, Loads(data).sender, Loads(data).routing_table)

\* The router whose socket is bound to a port, if any.
BoundTo(port) == {r \in routers : PortOf[r] = port}

\* sendto: the datagram is queued at the bound socket, or lost when the socket's
\* receive buffer already holds capacity datagrams.
DeliverUpTo(boxes, port, data, capacity) ==
    [r \in DOMAIN boxes |->
        IF r \in BoundTo(port) /\ Len(boxes[r]) < capacity
        THEN Append(boxes[r], data)
        ELSE boxes[r]]

Deliver(boxes, port, data) == DeliverUpTo(boxes, port, data, MaxQueue)

-----------------------------------------------------------------------------
(* Initial state: the command loop is up, no configuration loaded *)

Init ==
    /\ routers = {}
    /\ neighbors = << >>
    /\ routing_table = << >>
    /\ interfaces = << >>
    /\ running = << >>
    /\ threads = << >>
    /\ inbox = << >>
    /\ commands = 0
    /\ display = Idle(<< >>)
    /\ log = NoLog

\* DVRouterCLI.do_load_config over one of the configurations cfgs.
LoadConfig(cfgs) ==
    /\ commands < MaxCommands
    /\ commands' = commands + 1
    /\ IF routers = {}
       THEN \E cfg \in cfgs :
              /\ routers' = DOMAIN cfg
              /\ neighbors' = [r \in DOMAIN cfg |-> cfg[r].neighbors]
              /\ routing_table' = [r \in DOMAIN cfg |-> InitTable(r)]
              /\ interfaces' = [r \in DOMAIN cfg |-> InitInterfaces(cfg[r].neighbors)]
              /\ running' = [r \in DOMAIN cfg |-> InitRunning]
              /\ threads' = [r \in DOMAIN cfg |-> [t \in 1..MaxThreads |-> NoThread]]
              /\ inbox' = [r \in DOMAIN cfg |-> <<>>]
              /\ display' = Idle([r \in DOMAIN cfg |-> <<>>])
              /\ log' = Log("loaded", "", "", <<>>, FALSE)
       ELSE \* socket.bind fails on the port the existing Router holds
            /\ log' = Log("load_failed", "", "", <<>>, FALSE)
            /\ UNCHANGED <<display, routers, neighbors, routing_table, interfaces, running,
                           threads, inbox>>

-----------------------------------------------------------------------------
(* Control surface: Router methods called from the command thread *)

\* The command thread takes the next command (it is not inside a display).
Command ==
    /\ display.router = ""
    /\ commands < MaxCommands
    /\ commands' = commands + 1

FreeSlots(r) == {t \in 1..MaxThreads : threads[r][t].pc = "none"}

\* Router.start
start(r) ==
    /\ Command
    /\ FreeSlots(r) # {}
    /\ running' = [running EXCEPT ![r] = TRUE]
    /\ LET t == CHOOSE t \in FreeSlots(r) : \A u \in FreeSlots(r) : t <= u
       IN  threads' = [threads EXCEPT ![r][t] = [NoThread EXCEPT !.pc = "top"]]
    /\ log' = Log("started", r, "", <<>>, FALSE)
    /\ UNCHANGED <<display, routers, neighbors, routing_table, interfaces, inbox>>

\* Router.stop
stop(r) ==
    /\ Command
    /\ running' = [running EXCEPT ![r] = FALSE]
    /\ log' = Log("stopped", r, "", <<>>, FALSE)
    /\ UNCHANGED <<display, routers, neighbors, routing_table, interfaces, threads, inbox>>

Toggled_Create(ifs, interface_port, value) == IfaceSet(ifs, interface_port, value)

Toggled_All(ifs, interface_port, value) ==
    IF interface_port \in DOMAIN ifs THEN [p \in DOMAIN ifs |-> value] ELSE ifs

\* if interface_port in self.interfaces: self.interfaces[interface_port] = value
Toggled(ifs, interface_port, value) ==
    IF interface_port \in DOMAIN ifs THEN IfaceSet(ifs, interface_port, value) ELSE ifs

\* Router.start_interface / Router.stop_interface
set_interface(r, interface_port, value) ==
    /\ Command
    /\ interfaces' = [interfaces EXCEPT ![r] = Toggled(@, interface_port, value)]
    /\ log' = IF interface_port \in DOMAIN interfaces[r]
              THEN Log(IF value THEN "started_interface" ELSE "stopped_interface",
                       r, "", <<interface_port>>, FALSE)
              ELSE Log("no_interface", r, "", <<interface_port>>, FALSE)
    /\ UNCHANGED <<display, routers, neighbors, routing_table, running, threads, inbox>>

start_interface(r, interface_port) == set_interface(r, interface_port, TRUE)

stop_interface(r, interface_port) == set_interface(r, interface_port, FALSE)

\* The three assignments of Router.add_neighbor.
AddedNeighbors(nbrs, neighbor_name, neighbor_port, cost) ==
    Put(nbrs, neighbor_name, <<neighbor_port, cost>>)

AddedTable(table, neighbor_name, cost) ==
    Put(table, neighbor_name, <<cost, neighbor_name>>)

AddedInterfaces_Active(ifs, neighbor_port) == IfaceSet(ifs, neighbor_port, TRUE)

AddedInterfaces(ifs, neighbor_port) == IfaceSet(ifs, neighbor_port, FALSE)

\* Router.add_neighbor
add_neighbor(r, neighbor_name, neighbor_port, cost) ==
    /\ Command
    /\ neighbors' = [neighbors EXCEPT ![r] =
                        AddedNeighbors(@, neighbor_name, neighbor_port, cost)]
    /\ routing_table' = [routing_table EXCEPT ![r] = AddedTable(@, neighbor_name, cost)]
    /\ interfaces' = [interfaces EXCEPT ![r] = AddedInterfaces(@, neighbor_port)]
    /\ log' = Log("added_neighbor", r, neighbor_name, <<neighbor_port, cost>>, FALSE)
    /\ UNCHANGED <<display, routers, running, threads, inbox>>

-----------------------------------------------------------------------------
(* The run() thread of Router.start *)

LoopCondition_Always(r) == TRUE

\* while self.running:
LoopCondition(r) == running[r]

\* while self.running: (after the sleep of the previous cycle)
LoopTop(r, t) ==
    /\ threads[r][t].pc = "top"
    /\ IF LoopCondition(r)
       THEN threads' = [threads EXCEPT ![r][t] =
                           [pc |-> "send", idx |-> 1, used |-> Len(neighbors[r]),
                            nbr |-> <<>>]]
       ELSE threads' = [threads EXCEPT ![r][t] = NoThread]
    /\ UNCHANGED <<display, routers, neighbors, routing_table, interfaces, running, inbox,
                   commands, log>>

\* send_routing_table: the next item of self.neighbors.items() and the interface test.
SendNext(r, t) ==
    LET th == threads[r][t] IN
    /\ th.pc = "send"
    /\ IF Len(neighbors[r]) # th.used
       THEN \* RuntimeError: dictionary changed size during iteration; run() ends
            /\ threads' = [threads EXCEPT ![r][t] = NoThread]
            /\ log' = Log("thread_error", r, "", <<>>, FALSE)
       ELSE IF th.idx > Len(neighbors[r])
       THEN /\ threads' = [threads EXCEPT ![r][t] = [th EXCEPT !.pc = "recv", !.nbr = <<>>]]
            /\ log' = log
       ELSE LET neighbor_name == neighbors[r][th.idx][1]
                neighbor_port == neighbors[r][th.idx][2][1]
            IN  IF IfaceGet(interfaces[r], neighbor_port)
                THEN /\ threads' = [threads EXCEPT ![r][t] =
                            [th EXCEPT !.pc = "sendto",
                                       !.nbr = <<neighbor_name, neighbor_port>>]]
                     /\ log' = log
                ELSE /\ threads' = [threads EXCEPT ![r][t] = [th EXCEPT !.idx = @ + 1]]
                     /\ log' = Log("skipping", r, neighbor_name, <<>>, FALSE)
    /\ UNCHANGED <<display, routers, neighbors, routing_table, interfaces, running, inbox, commands>>

\* Whether socket.sendto returns (TRUE) or raises (FALSE).
SendOutcomes == BOOLEAN

\* send_routing_table: the message is built and handed to socket.sendto. Nothing
\* in send_routing_table or run() catches what sendto raises: run() ends.
SendTo(r, t, ok) ==
    LET th == threads[r][t] IN
    /\ th.pc = "sendto"
    /\ IF ok
       THEN /\ inbox' = Deliver(inbox, th.nbr[2], Dumps(r, routing_table[r]))
            /\ threads' = [threads EXCEPT ![r][t] =
                    [th EXCEPT !.pc = "send", !.idx = @ + 1, !.nbr = <<>>]]
            /\ log' = Log("sending", r, th.nbr[1], Dumps(r, routing_table[r]).routing_table,
                          FALSE)
       ELSE /\ inbox' = inbox
            /\ threads' = [threads EXCEPT ![r][t] = NoThread]
            /\ log' = Log("send_error", r, th.nbr[1], <<>>, FALSE)
    /\ UNCHANGED <<display, routers, neighbors, routing_table, interfaces, running, commands>>

Dequeued_All(queue) == <<>>

\* socket.recvfrom takes the first queued datagram.
Dequeued(queue) == Tail(queue)

\* receive_routing_table, then the sleep.
Receive(r, t) ==
    LET th == threads[r][t] IN
    /\ th.pc = "recv"
    /\ threads' = [threads EXCEPT ![r][t] = [th EXCEPT !.pc = "top"]]
    /\ IF inbox[r] = <<>>
       THEN \* BlockingIOError
            /\ UNCHANGED <<routing_table, inbox, log>>
       ELSE LET message == Head(inbox[r])
                res == Handled(routing_table[r], neighbors[r], message)
            IN  /\ inbox' = [inbox EXCEPT ![r] = Dequeued(@)]
                /\ routing_table' = [routing_table EXCEPT ![r] = res.table]
                /\ log' = IF res.raised
                          THEN Log("receive_error", r, message.sender,
                                   message.routing_table, FALSE)
                          ELSE Log("received", r, message.sender,
                                   message.routing_table, res.updated)
    /\ UNCHANGED <<display, routers, neighbors, interfaces, running, commands>>

-----------------------------------------------------------------------------
(* Direct calls of Router.update_routing_table with arbitrary arguments *)

\* One item of a neighbor's routing_table: destination -> [cost, next_hop].
Entries == {<<d, <<c, d>> >> : d \in Names, c \in NeighborCosts}

\* The neighbor tables of at most MaxLen items (keys are unique in a JSON object).
NeighborTables ==
    {nt \in UNION {[1..n -> Entries] : n \in 0..MaxLen} :
        \A i, j \in DOMAIN nt : nt[i][1] = nt[j][1] => i = j}

\* router.update_routing_table(neighbor_name, neighbor_table)
update(r, neighbor_name, neighbor_table) ==
    LET res == update_routing_table(routing_table[r], neighbors[r], neighbor_name,
                                    neighbor_table)
    IN  /\ Command
        /\ commands <= MaxCalls
        /\ routing_table' = [routing_table EXCEPT ![r] = res.table]
        /\ log' = Log(IF res.raised THEN "KeyError" ELSE "update", r, neighbor_name,
                      neighbor_table, res.updated)
        /\ UNCHANGED <<display, routers, neighbors, interfaces, running, threads, inbox>>

-----------------------------------------------------------------------------
(* The system: the command thread and every router's run() threads *)

Next ==
    \/ LoadConfig(SysConfigs)
    \/ \E r \in routers : start(r)
    \/ \E r \in routers : stop(r)
    \/ \E r \in routers, p \in Ports : start_interface(r, p)
    \/ \E r \in routers, p \in Ports : stop_interface(r, p)
    \/ \E r \in routers, n \in Names, c \in AddCosts : add_neighbor(r, n, PortOf[n], c)
    \/ \E r \in routers, t \in 1..MaxThreads : LoopTop(r, t)
    \/ \E r \in routers, t \in 1..MaxThreads : SendNext(r, t)
    \/ \E r \in routers, t \in 1..MaxThreads, ok \in SendOutcomes : SendTo(r, t, ok)
    \/ \E r \in routers, t \in 1..MaxThreads : Receive(r, t)

Spec == Init /\ [][Next]_vars

\* One step of the run() thread in slot t of router r.
ThreadStep(r, t) ==
    /\ r \in routers
    /\ \/ LoopTop(r, t)
       \/ SendNext(r, t)
       \/ \E ok \in SendOutcomes : SendTo(r, t, ok)
       \/ Receive(r, t)

\* The system with every started thread scheduled again and again.
FairSpec ==
    Spec /\ \A r \in Names : \A t \in 1..MaxThreads : WF_vars(ThreadStep(r, t))

\* A router under a sequence of update_routing_table calls.
CallNext ==
    \/ LoadConfig(CallConfigs)
    \/ \E r \in routers, n \in Names, nt \in NeighborTables : update(r, n, nt)

CallSpec == Init /\ [][CallNext]_vars

-----------------------------------------------------------------------------
(* Properties *)

\* The step is a call made from the command thread that logged op.
Called(op) == commands' = commands + 1 /\ log'.op = op

\* The link cost the router has for a neighbor it knows.
LinkCost(r, n) == Get(neighbors[r], n)[2]

LiveThreads(r) == {t \in 1..MaxThreads : threads[r][t].pc # "none"}

\* C1: every router's table maps its own name to (0, itself), in every state.
C1_SelfRoute ==
    \A r \in routers :
        Has(routing_table[r], r) /\ Get(routing_table[r], r) = <<0, r>>

\* C2: an update_routing_table call keeps every destination of the table and
\* never raises its cost.
C2_MergeMonotone ==
    [][(Called("update") \/ Called("KeyError")) =>
        \A r \in routers : \A d \in Keys(routing_table[r]) :
            /\ Has(routing_table'[r], d)
            /\ Get(routing_table'[r], d)[1] <= Get(routing_table[r], d)[1]]_vars

\* A call that changed the table lowered the entry at position 2 of 3: that
\* destination was in the table before the call (a new key is appended last).
C2_Witness ==
    \E r \in routers :
        /\ log.op = "update" /\ log.router = r /\ log.updated
        /\ Len(log.arg) = 1
        /\ Len(routing_table[r]) = 3
        /\ routing_table[r][2][1] = log.arg[1][1]

\* C3: a destination D absent from the table and advertised at cost c by a
\* neighbor of link cost L is entered as (L + c, neighbor).
C3_MergeAbsent ==
    [][Called("update") =>
        \A r \in routers : \A i \in DOMAIN log'.arg :
            (log'.router = r /\ ~Has(routing_table[r], log'.arg[i][1])) =>
                /\ Has(routing_table'[r], log'.arg[i][1])
                /\ Get(routing_table'[r], log'.arg[i][1])
                     = <<LinkCost(r, log'.peer) + log'.arg[i][2][1], log'.peer>>]_vars

\* The first call on a new router entered a destination at link cost + 1.
C3_Witness ==
    \E r \in routers : \E i \in DOMAIN log.arg :
        /\ commands = 2 /\ log.op = "update" /\ log.router = r /\ log.updated
        /\ log.arg[i][1] # r /\ log.arg[i][2][1] = 1
        /\ Get(routing_table[r], log.arg[i][1]) = <<LinkCost(r, log.peer) + 1, log.peer>>

\* C4: an entry whose cost equals the candidate L + c is kept as it is; an
\* entry is replaced only by a strictly smaller candidate.
C4_TieKept ==
    [][Called("update") =>
        \A r \in routers : \A i \in DOMAIN log'.arg :
            LET D == log'.arg[i][1]
                candidate == LinkCost(r, log'.peer) + log'.arg[i][2][1]
            IN  (log'.router = r /\ Has(routing_table[r], D)) =>
                  /\ Get(routing_table[r], D)[1] = candidate =>
                        Get(routing_table'[r], D) = Get(routing_table[r], D)
                  /\ Get(routing_table'[r], D) # Get(routing_table[r], D) =>
                        candidate < Get(routing_table[r], D)[1]]_vars

\* After a call, an entry costs exactly the candidate but routes through another
\* neighbor: the candidate tied with it and the entry was kept.
C4_Witness ==
    \E r \in routers : \E i \in DOMAIN log.arg :
        /\ log.op = "update" /\ log.router = r
        /\ Has(routing_table[r], log.arg[i][1])
        /\ Get(routing_table[r], log.arg[i][1])[1]
             = LinkCost(r, log.peer) + log.arg[i][2][1]
        /\ Get(routing_table[r], log.arg[i][1])[2] # log.peer

\* C5: a call that repeats the previous call's neighbor and neighbor table
\* reports no update and leaves the table as the previous call left it.
C5_Idempotent ==
    [][(log.op = "update" /\ Called("update") /\ log'.router = log.router
          /\ log'.peer = log.peer /\ log'.arg = log.arg) =>
        (~log'.updated /\ routing_table' = routing_table)]_vars

\* A call of a non-empty table changed nothing, every entry it offers being in
\* the table already as entered from this neighbor.
C5_Witness ==
    \E r \in routers :
        /\ log.op = "update" /\ log.router = r /\ ~log.updated
        /\ log.arg # <<>>
        /\ \A i \in DOMAIN log.arg :
              /\ log.arg[i][1] # r
              /\ Get(routing_table[r], log.arg[i][1])
                   = <<LinkCost(r, log.peer) + log.arg[i][2][1], log.peer>>

\* C6: a datagram is handed to sendto only while the interface toward that peer
\* is active; and a datagram from a known neighbor is merged whatever the state
\* of the receiver's interface toward it.
C6_InterfaceGating ==
    [][\A r \in routers : \A t \in 1..MaxThreads :
        /\ (threads[r][t].pc = "sendto" /\ threads'[r][t].pc = "send") =>
              IfaceGet(interfaces[r], threads[r][t].nbr[2])
        /\ (threads[r][t].pc = "recv" /\ threads'[r][t].pc = "top"
              /\ inbox[r] # <<>> /\ Has(neighbors[r], Head(inbox[r]).sender)) =>
              routing_table'[r] =
                  update_routing_table(routing_table[r], neighbors[r],
                                       Head(inbox[r]).sender,
                                       Head(inbox[r]).routing_table).table]_vars

\* C7: add_neighbor(D, port, cost) on a router that does not know D leaves D in
\* neighbors with (port, cost), table[D] = (cost, D) and the port's interface
\* present and inactive.
C7_AddNeighbor ==
    [][Called("added_neighbor") =>
        \A r \in routers :
            (log'.router = r /\ ~Has(neighbors[r], log'.peer)) =>
                /\ Has(neighbors'[r], log'.peer)
                /\ Get(neighbors'[r], log'.peer) = log'.arg
                /\ Has(routing_table'[r], log'.peer)
                /\ Get(routing_table'[r], log'.peer) = <<log'.arg[2], log'.peer>>
                /\ log'.arg[1] \in DOMAIN interfaces'[r]
                /\ ~IfaceGet(interfaces'[r], log'.arg[1])]_vars

\* Right after loading, "C", which no configured router knows, was added.
C7_Witness ==
    \E r \in routers :
        /\ commands = 2 /\ log.op = "added_neighbor" /\ log.router = r
        /\ log.peer = "C"
        /\ Get(neighbors[r], "C") = log.arg
        /\ Get(routing_table[r], "C") = <<log.arg[2], "C">>
        /\ ~interfaces[r][log.arg[1]]

\* C8: no step of a router's lifetime removes a destination or raises its cost.
C8_NeverIncreases ==
    [][\A r \in routers : \A d \in Keys(routing_table[r]) :
        /\ Has(routing_table'[r], d)
        /\ Get(routing_table'[r], d)[1] <= Get(routing_table[r], d)[1]]_vars

\* C9: load_config leaves every router stopped, with the self entry as its
\* whole table and every neighbor's interface present and inactive.
C9_Construction ==
    [][(routers = {} /\ routers' # {}) =>
        \A r \in routers' :
            /\ running'[r] = FALSE
            /\ routing_table'[r] = << <<r, <<0, r>> >> >>
            /\ \A i \in DOMAIN neighbors'[r] :
                  /\ neighbors'[r][i][2][1] \in DOMAIN interfaces'[r]
                  /\ interfaces'[r][neighbors'[r][i][2][1]] = FALSE]_vars

\* The routers have just been constructed, with links.
C9_Witness ==
    /\ log.op = "loaded"
    /\ \E r \in routers : Len(neighbors[r]) >= 1 /\ ~running[r]

\* C10: a router never has more than one run() thread.
C10_SingleLoop == \A r \in routers : Cardinality(LiveThreads(r)) <= 1

-----------------------------------------------------------------------------
(* The command loop of main.py on the three-router chain *)

\* DVRouterCLI.do_all_interfaces_start on one router: start_interface on every
\* key of its interfaces.
AllStarted(ifs) == [p \in DOMAIN ifs |-> Toggled(ifs, p, TRUE)[p]]

\* The state after load_config, all_interfaces_start and start_routers on one of
\* the configurations cfgs: every interface active, every router running with
\* one run() thread at the top of its loop, nothing sent yet.
Established(cfgs) ==
    \E cfg \in cfgs :
        /\ routers = DOMAIN cfg
        /\ neighbors = [r \in DOMAIN cfg |-> cfg[r].neighbors]
        /\ routing_table = [r \in DOMAIN cfg |-> InitTable(r)]
        /\ interfaces = [r \in DOMAIN cfg |-> AllStarted(InitInterfaces(cfg[r].neighbors))]
        /\ running = [r \in DOMAIN cfg |-> TRUE]
        /\ threads = [r \in DOMAIN cfg |->
                        [t \in 1..MaxThreads |->
                            IF t = 1 THEN [NoThread EXCEPT !.pc = "top"] ELSE NoThread]]
        /\ inbox = [r \in DOMAIN cfg |-> <<>>]
        /\ commands = 3
        /\ display = Idle([r \in DOMAIN cfg |-> <<>>])
        /\ log = Log("started_all", "", "", <<>>, FALSE)

\* send_routing_table from neighbor i on, every sendto returning (the ports of the
\* configurations are valid and the tables small). lg is the last record logged
\* so far.
RECURSIVE SendAll(_, _, _, _)
SendAll(boxes, lg, r, i) ==
    IF i > Len(neighbors[r])
    THEN [inbox |-> boxes, log |-> lg]
    ELSE LET neighbor_name == neighbors[r][i][1]
             neighbor_port == neighbors[r][i][2][1]
             message == Dumps(r, routing_table[r])
         IN  IF IfaceGet(interfaces[r], neighbor_port)
             THEN \* (the set binds the queues so far to a value, once)
                  CHOOSE s \in {SendAll(b, Log("sending", r, neighbor_name,
                                               message.routing_table, FALSE), r, i + 1) :
                                   b \in {DeliverUpTo(boxes, neighbor_port, message,
                                                      MaxBacklog)}} : TRUE
             ELSE SendAll(boxes, Log("skipping", r, neighbor_name, <<>>, FALSE), r, i + 1)

\* One whole cycle of run() taken as a single step: the test of self.running,
\* send_routing_table, receive_routing_table and the sleep. The thread is at the
\* top of the loop before and after.
Cycle(r, t) ==
    /\ threads[r][t].pc = "top"
    /\ LoopCondition(r)
    /\ \E sent \in {SendAll(inbox, log, r, 1)} :
          IF sent.inbox[r] = <<>>
          THEN \* BlockingIOError
               /\ inbox' = sent.inbox
               /\ log' = sent.log
               /\ routing_table' = routing_table
          ELSE \E message \in {Head(sent.inbox[r])} :
               \E res \in {Handled(routing_table[r], neighbors[r], message)} :
                  /\ inbox' = [sent.inbox EXCEPT ![r] = Dequeued(@)]
                  /\ routing_table' = [routing_table EXCEPT ![r] = res.table]
                  /\ log' = IF res.raised
                            THEN Log("receive_error", r, message.sender,
                                     message.routing_table, FALSE)
                            ELSE Log("received", r, message.sender,
                                     message.routing_table, res.updated)
    /\ UNCHANGED <<display, routers, neighbors, interfaces, running, threads, commands>>

ChainNext ==
    \/ \E r \in routers : \E p \in DOMAIN interfaces[r] : stop_interface(r, p)
    \/ \E r \in routers, t \in 1..MaxThreads : Cycle(r, t)

\* The chain, established, with interfaces being stopped while the loops run.
ChainSpec == Established(ChainConfigs) /\ [][ChainNext]_vars

\* Some run() thread of router r makes a cycle.
CycleOf(r) == r \in routers /\ \E t \in 1..MaxThreads : Cycle(r, t)

StaticNext == \E r \in Names : CycleOf(r)

\* A static topology: established, no command made any more, every loop
\* scheduled again and again.
StaticSpec ==
    /\ Established(StaticConfigs)
    /\ [][StaticNext]_vars
    /\ \A r \in Names : WF_vars(CycleOf(r))

-----------------------------------------------------------------------------
(* Datagrams from outside: any local process can send to a router's port *)

\* Tables put on the wire from outside: a well-formed one, and one with a
\* malformed entry (an empty list) after a well-formed one.
WireTables ==
    { << <<"C", <<0, "C">> >> >>,
      << <<"C", <<1, "C">> >>, <<"B", << >> >> >> }

\* The names a datagram from outside may carry as its sender: D is nobody's
\* neighbor.
Senders == {"B", "C", "D"}

Datagrams ==
    {Garbage} \cup {[sender |-> n, routing_table |-> nt] : n \in Senders, nt \in WireTables}

\* A datagram arrives at router r's socket (there is no authentication).
Inject(r, data) ==
    /\ Len(inbox[r]) < MaxBacklog
    /\ inbox' = DeliverUpTo(inbox, PortOf[r], data, MaxBacklog)
    /\ UNCHANGED <<display, routers, neighbors, routing_table, interfaces, running, threads,
                   commands, log>>

WireNext ==
    \/ \E r \in routers, data \in Datagrams : Inject(r, data)
    \/ \E r \in routers, t \in 1..MaxThreads : Cycle(r, t)

\* One router, established, with datagrams arriving from outside.
WireSpec == Established(CallConfigs) /\ [][WireNext]_vars

HopNext ==
    \/ WireNext
    \/ \E r \in routers, n \in Senders, p \in Ports, c \in AddCosts : add_neighbor(r, n, p, c)

\* One router, established, with datagrams arriving from outside and neighbors
\* added while it runs.
HopSpec == Established(CallConfigs) /\ [][HopNext]_vars

-----------------------------------------------------------------------------
(* Router.display_routing_table, called by show_tables on the command thread *)

\* The header is printed and the iteration over self.routing_table.items()
\* begins. (first keeps the table of that moment, for comparison only; the
\* colour of a row is not modelled.)
display_routing_table(r) ==
    /\ Command
    /\ display' = [display EXCEPT !.router = r, !.idx = 0,
                                  !.used = Len(routing_table[r]),
                                  !.rows = <<>>, !.first = routing_table[r]]
    /\ log' = Log("display", r, "", <<>>, FALSE)
    /\ UNCHANGED <<routers, neighbors, routing_table, interfaces, running, threads, inbox>>

\* The next item of the iteration over the live dict is printed, or the
\* iteration ends and previous_routing_table takes a copy, or the iterator finds
\* the size of the dict changed and raises RuntimeError.
DisplayNext(r) ==
    /\ display.router = r
    /\ IF Len(routing_table[r]) # display.used
       THEN /\ display' = Idle(display.previous)
            /\ log' = Log("display_error", r, "", display.rows, FALSE)
       ELSE IF display.idx >= Len(routing_table[r])
       THEN /\ display' = Idle([display.previous EXCEPT ![r] = routing_table[r]])
            /\ log' = Log("displayed", r, "", display.rows, FALSE)
       ELSE /\ display' = [display EXCEPT !.idx = @ + 1,
                                !.rows = Append(@, routing_table[r][display.idx + 1])]
            /\ log' = log
    /\ UNCHANGED <<routers, neighbors, routing_table, interfaces, running, threads, inbox,
                   commands>>

DisplayNextOf ==
    \/ \E r \in routers : display_routing_table(r)
    \/ \E r \in routers : DisplayNext(r)
    \/ \E r \in routers, data \in Datagrams : Inject(r, data)
    \/ \E r \in routers, t \in 1..MaxThreads : Cycle(r, t)

\* One router, established, displayed while datagrams arrive and its loop runs.
DisplaySpec == Established(CallConfigs) /\ [][DisplayNextOf]_vars

-----------------------------------------------------------------------------
(* The link bookkeeping alone: neighbors added on any port, interfaces toggled *)

LinkNext ==
    \/ LoadConfig(CallConfigs)
    \/ \E r \in routers, p \in Ports : start_interface(r, p)
    \/ \E r \in routers, p \in Ports : stop_interface(r, p)
    \/ \E r \in routers, n \in Names, p \in Ports, c \in AddCosts : add_neighbor(r, n, p, c)

LinkSpec == Init /\ [][LinkNext]_vars

\* Router r exists and its running flag is false.
Halted(r) == IF r \in routers THEN ~running[r] ELSE FALSE

\* Router r exists and none of its run() threads is alive.
Exited(r) == IF r \in routers THEN LiveThreads(r) = {} ELSE FALSE

\* C11: stop only clears running and returns with the threads where they were;
\* while running stays false no thread begins another cycle, so a thread ends at
\* most the cycle it is in; and if running stays false for good, the router's
\* threads are eventually all gone.
C11_CooperativeStop ==
    /\ [][\A r \in routers :
            /\ (Called("stopped") /\ log'.router = r) =>
                  /\ running'[r] = FALSE
                  /\ UNCHANGED <<threads, routing_table, inbox, interfaces, neighbors>>
            /\ \A t \in 1..MaxThreads :
                  (~running[r] /\ threads[r][t].pc = "top"
                     /\ threads'[r][t] # threads[r][t]) =>
                        threads'[r][t].pc = "none"]_vars
    /\ \A r \in Names : <>[]Halted(r) => <>[]Exited(r)

\* stop has just returned while a run() thread is in the middle of a cycle.
C11_Witness ==
    \E r \in routers : \E t \in 1..MaxThreads :
        /\ log.op = "stopped" /\ log.router = r /\ ~running[r]
        /\ threads[r][t].pc \in {"send", "sendto", "recv"}

\* The command that has just run was a toggle of port p on router r.
ToggleCalled(r, p) ==
    /\ commands' = commands + 1
    /\ log'.op \in {"started_interface", "stopped_interface", "no_interface"}
    /\ log'.router = r
    /\ log'.arg = <<p>>

\* C12: start_interface / stop_interface with a port that is not in interfaces
\* returns (the command completes) having only reported it: no entry is added and
\* interfaces, routing_table, neighbors, running and the threads are unchanged.
C12_UnknownInterface ==
    [][\A r \in routers : \A p \in Ports :
          (ToggleCalled(r, p) /\ p \notin DOMAIN interfaces[r]) =>
              /\ log'.op = "no_interface"
              /\ p \notin DOMAIN interfaces'[r]
              /\ UNCHANGED <<interfaces, routing_table, neighbors, running, threads>>]_vars

\* A toggle of a port that is not an interface of the router has just returned.
C12_Witness ==
    /\ log.op = "no_interface"
    /\ log.router \in routers
    /\ log.arg[1] \notin DOMAIN interfaces[log.router]

\* C13: a send that fails is survived by the loop: the thread goes on to the next
\* neighbor of the same cycle.
C13_SendFailureSurvived ==
    [][\A r \in routers : \A t \in 1..MaxThreads :
          (threads[r][t].pc = "sendto" /\ threads'[r][t] # threads[r][t]
             /\ inbox' = inbox) =>
              /\ threads'[r][t].pc = "send"
              /\ threads'[r][t].idx = threads[r][t].idx + 1]_vars

\* C19: the receive step of a cycle completes at once and ends the cycle; with an
\* empty queue it changes nothing; otherwise it takes exactly the first queued
\* datagram, merges that one and leaves the rest queued in order.
C19_OnePerCycle ==
    [][\A r \in routers : \A t \in 1..MaxThreads :
          (threads[r][t].pc = "recv" /\ threads'[r][t] # threads[r][t]) =>
              /\ threads'[r][t].pc = "top"
              /\ IF inbox[r] = <<>>
                 THEN UNCHANGED <<inbox, routing_table>>
                 ELSE /\ inbox' = [inbox EXCEPT ![r] = Tail(inbox[r])]
                      /\ routing_table' = [routing_table EXCEPT ![r] =
                            Handled(routing_table[r], neighbors[r],
                                    Head(inbox[r])).table]]_vars

\* A datagram has just been merged while another one stays queued.
C19_Witness ==
    /\ log.op = "received"
    /\ log.router \in routers
    /\ inbox[log.router] # <<>>

\* Router r holds the entry destination: (cost, next_hop) in table tbl.
Holds(tbl, destination, cost, next_hop) ==
    /\ Has(tbl, destination)
    /\ Get(tbl, destination) = <<cost, next_hop>>

\* Router r takes the first datagram of its queue (its own sends go to other
\* sockets, so its queue shrinks only by its receive).
Merges(r) ==
    /\ r \in routers
    /\ inbox[r] # <<>>
    /\ inbox'[r] = Tail(inbox[r])

\* Every router is running and every interface is active.
AllUp ==
    /\ routers # {}
    /\ \A r \in routers : running[r] /\ \A p \in DOMAIN interfaces[r] : interfaces[r][p]

\* C14: in the chain, B's merge of A's initial table gives B the entry A:(1,A),
\* its merge of C's initial table gives C:(1,C), both entries stay, and A's merge
\* of a table of B that holds C:(1,C) gives A the entry C:(2,B).
C14_Chain ==
    [][/\ \A n \in {"A", "C"} :
            (Merges("B") /\ Head(inbox["B"]) = Dumps(n, InitTable(n))) =>
                Holds(routing_table'["B"], n, 1, n)
       /\ \A n \in {"A", "C"} :
            ("B" \in routers /\ Holds(routing_table["B"], n, 1, n)) =>
                Holds(routing_table'["B"], n, 1, n)
       /\ (Merges("A") /\ Head(inbox["A"]).sender = "B"
             /\ Holds(Head(inbox["A"]).routing_table, "C", 1, "C")) =>
                Holds(routing_table'["A"], "C", 2, "B")]_vars

\* With everything up, B has merged both initial tables and A has just merged
\* B's table.
C14_Witness ==
    /\ AllUp
    /\ log.op = "received" /\ log.router = "A" /\ log.peer = "B"
    /\ Holds(routing_table["B"], "A", 1, "A")
    /\ Holds(routing_table["B"], "C", 1, "C")
    /\ Holds(routing_table["A"], "C", 2, "B")

\* The step is a cycle of router r's loop: no command was made and the last
\* record logged is r's.
Cycled(r) == commands' = commands /\ log'.router = r

\* C15: once A holds C:(2,B) it holds it in the next state, whatever interface is
\* stopped in between; every advertisement A then puts on a queue carries the
\* entry; and A's cycle goes on advertising to B while A's interface to B is
\* active and B's queue has room.
C15_StaleRoute ==
    [][("A" \in routers /\ Holds(routing_table["A"], "C", 2, "B")) =>
          /\ Holds(routing_table'["A"], "C", 2, "B")
          /\ \A n \in routers :
                (/\ Len(inbox'[n]) = Len(inbox[n]) + 1
                 /\ inbox'[n][Len(inbox'[n])].sender = "A") =>
                    Holds(inbox'[n][Len(inbox'[n])].routing_table, "C", 2, "B")
          /\ (Cycled("A") /\ IfaceGet(interfaces["A"], PortOf["B"])
                /\ Len(inbox["B"]) < MaxBacklog) =>
                    inbox'["B"] = Append(inbox["B"], Dumps("A", routing_table["A"]))]_vars

\* B's interface to C is inactive, and A, holding C:(2,B), has just advertised it.
C15_Witness ==
    /\ "B" \in routers
    /\ ~IfaceGet(interfaces["B"], PortOf["C"])
    /\ Holds(routing_table["A"], "C", 2, "B")
    /\ log.op = "sending" /\ log.router = "A"
    /\ Holds(log.arg, "C", 2, "B")

\* The total costs of the paths of at most hops links from src to dst.
RECURSIVE PathCosts(_, _, _)
PathCosts(src, dst, hops) ==
    IF src = dst THEN {0}
    ELSE IF hops = 0 THEN {}
    ELSE UNION {{LinkCost(src, n) + c : c \in PathCosts(n, dst, hops - 1)} :
                    n \in Keys(neighbors[src]) \cap routers}

\* The least total link cost of a path from src to dst.
Least(src, dst) ==
    LET costs == PathCosts(src, dst, Cardinality(routers) - 1)
    IN  CHOOSE c \in costs : \A d \in costs : c <= d

\* Every table holds every other router at the least total link cost.
Converged ==
    /\ routers # {}
    /\ \A r \in routers : \A d \in routers \ {r} :
          /\ Has(routing_table[r], d)
          /\ Get(routing_table[r], d)[1] = Least(r, d)

\* Router r lists n as a neighbor.
Linked(r, n) == r \in routers /\ Has(neighbors[r], n)

\* Router r merges an advertisement sent by its neighbor n (any step will do for
\* a pair that is not linked).
Hears(r, n) == IF Linked(r, n) THEN Merges(r) /\ Head(inbox[r]).sender = n ELSE TRUE

\* On every link, advertisements keep getting through: the router at one end
\* merges one from the other end again and again. (A queue of bounded length next
\* to one receive per cycle cannot keep every datagram of two neighbors; what
\* no loss provides for the merges is this.)
EveryLinkHeard == \A r \in Names : \A n \in Names : []<><<Hears(r, n)>>_vars

\* C16: in a static connected topology with every loop scheduled fairly and the
\* advertisements of every link getting through again and again, from some point
\* on every table holds the least costs for good; and once they do, no step
\* changes any table.
C16_Convergence ==
    /\ EveryLinkHeard => <>[]Converged
    /\ [][Converged => routing_table' = routing_table]_vars

\* The tables hold the least costs and a router has just merged an advertisement.
C16_Witness ==
    /\ AllUp
    /\ Converged
    /\ log.op = "received"

\* C17: when a router takes a decodable datagram whose sender is not one of its
\* neighbors, the error is logged, routing_table, neighbors and interfaces are
\* unchanged, and its loop is still there for the next cycle.
C17_UnknownSender ==
    [][\A r \in routers :
          (/\ Merges(r)
           /\ ~Loads(Head(inbox[r])).raised
           /\ ~Has(neighbors[r], Loads(Head(inbox[r])).sender)) =>
              /\ log'.op = "receive_error" /\ log'.router = r
              /\ UNCHANGED <<routing_table, neighbors, interfaces, threads>>
              /\ \E t \in 1..MaxThreads : threads'[r][t].pc = "top"]_vars

\* A router has just logged the error for a datagram from D, who is not its
\* neighbor, and its loop is at the top of the next cycle.
C17_Witness ==
    /\ log.op = "receive_error" /\ log.peer = "D"
    /\ log.router \in routers
    /\ ~Has(neighbors[log.router], "D")
    /\ \E t \in 1..MaxThreads : threads[log.router][t].pc = "top"

\* The datagram is not JSON, or its routing_table has a malformed entry.
Malformed(data) ==
    \/ Loads(data).raised
    \/ \E i \in DOMAIN Loads(data).routing_table :
          ~WellFormed(Loads(data).routing_table[i][2])

\* C18: when a router takes a malformed datagram, the error is logged, its
\* routing_table is what it was before the receive, and its loop is still there.
C18_DiscardedWhole ==
    [][\A r \in routers :
          (Merges(r) /\ Malformed(Head(inbox[r]))) =>
              /\ log'.op = "receive_error" /\ log'.router = r
              /\ routing_table' = routing_table
              /\ \E t \in 1..MaxThreads : threads'[r][t].pc = "top"]_vars

\* C20: a display in progress never fails because the table changed meanwhile,
\* and the rows of a completed display are those of the table as it was when the
\* display began or as it is when the display ends.
C20_NoTornRead ==
    [][\A r \in routers :
          (display.router = r /\ display' # display) =>
              /\ log'.op # "display_error"
              /\ display'.router = "" =>
                    \/ display.rows = display.first
                    \/ display.rows = routing_table[r]]_vars

\* The ports of router r's links.
LinkPorts(r) == {neighbors[r][i][2][1] : i \in DOMAIN neighbors[r]}

\* C21: in every state the keys of a router's interfaces are exactly the ports
\* of its neighbors.
C21_InterfacesMatchLinks ==
    \A r \in routers : DOMAIN interfaces[r] = LinkPorts(r)

\* C22: a toggle of a known port sets that port's flag and changes nothing else
\* (the other interfaces, routing_table, neighbors, running); and a receive that
\* takes a datagram leaves interfaces, neighbors and running unchanged.
C22_InterfaceIndependent ==
    [][\A r \in routers :
          /\ \A p \in Ports :
                (ToggleCalled(r, p) /\ p \in DOMAIN interfaces[r]) =>
                    /\ interfaces' = [interfaces EXCEPT ![r][p] = (log'.op = "started_interface")]
                    /\ log'.op # "no_interface"
                    /\ UNCHANGED <<routing_table, neighbors, running>>
          /\ \A t \in 1..MaxThreads :
                (threads[r][t].pc = "recv" /\ threads'[r][t] # threads[r][t]
                   /\ inbox[r] # <<>>) =>
                    UNCHANGED <<interfaces, neighbors, running>>]_vars

\* An interface of a router with two interfaces has just been started while the
\* other one is inactive.
C22_Witness ==
    /\ log.op = "started_interface"
    /\ log.router \in routers
    /\ interfaces[log.router][log.arg[1]]
    /\ \E q \in DOMAIN interfaces[log.router] : ~interfaces[log.router][q]

\* C23: in every state, every entry of a router's routing_table for a
\* destination other than the router itself has a next hop that is a key of the
\* router's neighbors.
C23_NextHopIsNeighbor ==
    \A r \in routers : \A i \in DOMAIN routing_table[r] :
        routing_table[r][i][1] # r =>
            /\ WellFormed(routing_table[r][i][2])
            /\ Has(neighbors[r], routing_table[r][i][2][2])

\* A router has merged a table from D, a neighbor it was given while running,
\* and holds a route to another destination through D.
C23_Witness ==
    /\ log.op = "received" /\ log.peer = "D"
    /\ log.router \in routers
    /\ Has(neighbors[log.router], "D")
    /\ Holds(routing_table[log.router], "C", LinkCost(log.router, "D"), "D")

\* C24: in a static topology with positive link costs and only advertisements
\* sent by routers on the wire, in every state every cost in a router's table is
\* at least the least total link cost of a path from the router to the
\* destination.
C24_NeverUnderestimates ==
    \A r \in routers : \A i \in DOMAIN routing_table[r] :
        /\ routing_table[r][i][1] \in routers
        /\ routing_table[r][i][2][1] >= Least(r, routing_table[r][i][1])

\* A router has just merged an advertisement and holds a destination two links
\* away at the least cost while another router holds a route that costs more
\* than the least path.
C24_Witness ==
    /\ log.op = "received"
    /\ \E r \in routers : \E d \in routers \ {r} :
          /\ Has(routing_table[r], d)
          /\ Get(routing_table[r], d)[2] # d
          /\ Get(routing_table[r], d)[1] = Least(r, d)
    /\ \E r \in routers : \E d \in routers \ {r} :
          /\ Has(routing_table[r], d)
          /\ Get(routing_table[r], d)[1] > Least(r, d)

====
